---- MODULE Spec2Model ----
(***************************************************************************)
(* Image service of aws-news (src/backend/services/image/index.js).        *)
(*                                                                         *)
(* The image handler (lines 98-137) resolves an article id to the key of   *)
(* its base image, derives the key of the resized image, and answers with  *)
(* the stored or freshly resized image.  The listing handler (lines        *)
(* 146-300) pages through the article ids kept in Redis.  The model        *)
(* follows each handler from one suspension point (await) to the next.     *)
(* JavaScript values are tagged records, strings are sequences of          *)
(* one-character strings, and the collaborators (DynamoDB document client, *)
(* S3 client, sharp, Redis) are the environment: their replies are chosen  *)
(* nondeterministically among the replies the service can give.            *)
(***************************************************************************)
EXTENDS Integers, Sequences, FiniteSets, TLC

\* Number of requests the handler serves in one behaviour.
NumReq == 2

Requests == 1..NumReq

(***************************************************************************)
(* JavaScript values.  t is the type tag, s the character or byte content, *)
(* st the settlement of a promise ("" for every other value).              *)
(***************************************************************************)
Undefined == [t |-> "undefined", s |-> <<>>, st |-> ""]

Str(chars) == [t |-> "string", s |-> chars, st |-> ""]

\* A Buffer holding bytes.
Buf(bytes) == [t |-> "buffer", s |-> bytes, st |-> ""]

\* Output of DocumentClient.get: { Item: { image: key } }, or {} when the
\* table holds no item with that id (key = <<>>).
DdbOutput(key) == [t |-> "ddboutput", s |-> key, st |-> ""]

\* Output of S3 getObject: { Body: <Buffer> }.
S3Output(bytes) == [t |-> "s3output", s |-> bytes, st |-> ""]

\* A promise that settles as st: "ok" (fulfilled with S3Output(bytes)),
\* "NoSuchKey" or "Unavailable" (rejected), "pending" (never observed).
PromiseOf(st, bytes) == [t |-> "promise", s |-> bytes, st |-> st]

\* The body { error: 'Not Found' } of the handler's error response.
ErrorBody == [t |-> "errorbody", s |-> <<"Not Found">>, st |-> ""]

\* Text of a string produced by Buffer.toString('base64').
Base64Of(bytes) == [t |-> "string", s |-> <<"base64">> \o bytes, st |-> ""]

\* Object.prototype.toString of a promise: the text "[object Promise]".
ObjectPromiseText == [t |-> "string", s |-> <<"[object Promise]">>, st |-> ""]

(***************************************************************************)
(* Keys and the key derivation of line 106.                                *)
(***************************************************************************)
DotJpg == <<".", "j", "p", "g">>

UndefinedText == <<"u", "n", "d", "e", "f", "i", "n", "e", "d">>

\* The regular expression /\.jpg$/ matches the last four characters.
EndsWithJpg(key) ==
  /\ Len(key) >= Len(DotJpg)
  /\ SubSeq(key, Len(key) - Len(DotJpg) + 1, Len(key)) = DotJpg

\* Text of ${size} in the template literal `-${size}.jpg`.
SizeText(size) == IF size.t = "undefined" THEN UndefinedText ELSE size.s

\* The text a replacement string stands for (String.prototype.replace,
\* line 106): "$$" is "$", "$&" the matched text, "$" with a grave accent
\* (written "grave") the text before the match, "$'" the text after it.
\* The expression has no capture group, so any other "$" stands for
\* itself.
RECURSIVE ExpandReplacement(_, _, _, _)
ExpandReplacement(text, matched, before, after) ==
  IF Len(text) = 0 THEN <<>>
  ELSE IF Len(text) >= 2 /\ text[1] = "$" /\ text[2] \in {"$", "&", "grave", "'"}
  THEN (CASE text[2] = "$" -> <<"$">>
          [] text[2] = "&" -> matched
          [] text[2] = "grave" -> before
          [] OTHER -> after)
       \o ExpandReplacement(SubSeq(text, 3, Len(text)), matched, before, after)
  ELSE <<text[1]>> \o ExpandReplacement(Tail(text), matched, before, after)

\* imageBaseKey.replace(/\.jpg$/, `-${size}.jpg`) on a string: the suffix
\* is replaced by the expanded replacement when the expression matches,
\* otherwise the string is returned as it is.
ReplaceJpg(key, size) ==
  IF EndsWithJpg(key)
  THEN LET before == SubSeq(key, 1, Len(key) - Len(DotJpg)) IN
       before \o ExpandReplacement(<<"-">> \o SizeText(size) \o DotJpg,
                                   DotJpg, before, <<>>)
  ELSE key

(***************************************************************************)
(* The environment: the articles table, the content bucket and sharp.      *)
(***************************************************************************)
BaseJpg == <<"a", ".", "j", "p", "g">>

BasePng == <<"a", ".", "p", "n", "g">>

\* The articles table: article id -> key of the base image ('image').
\* Article "999" is not in the table.
Articles == [id \in {"123", "456"} |-> IF id = "123" THEN BaseJpg ELSE BasePng]

ArticleIds == {"123", "456", "999"}

\* The widths a request asks for (text of the query string parameter).
Sizes == {<<"3">>, <<"6">>}

\* Every text a client sends as size: the widths, and texts that hold a
\* replacement pattern of line 106.
QuerySizes == Sizes \cup {<<"$", "&">>, <<"$", "$">>, <<"$">>}

\* Bytes of the base image stored under a base key.
SourceBytes(key) == <<"src">> \o key

\* sharp(buffer).resize({ width }).toBuffer() on image bytes (lines 25-29):
\* a deterministic function of the bytes and the width.
ProcessImage(bytes, width) == <<"resized">> \o width \o <<"of">> \o bytes

\* Bytes sharp cannot decode: processImage rejects on them.
CorruptBytes == <<"corrupt">>

ProcessImageFails(bytes) == bytes = CorruptBytes

\* DEFAULT_IMAGE_WIDTH of line 14: the text of the environment variable.
DefaultImageWidth == <<"9">>

\* The default parameter desiredWidth=DEFAULT_IMAGE_WIDTH of line 53: the
\* default applies when the argument is undefined.
DesiredWidth(size) == IF size.t = "undefined" THEN DefaultImageWidth ELSE size.s

\* An object of the bucket: Body, ContentType and Metadata of putObject.
Blob(bytes, contentType, metadata) ==
  [Body |-> bytes, ContentType |-> contentType, Metadata |-> metadata]

\* The metadata { articleId, imageBaseKey } of line 57.
ImageMetadata(articleId, imageBaseKey) ==
  [articleId |-> articleId, imageBaseKey |-> imageBaseKey]

\* Base images are put by the ingestion, without this metadata.
NoMetadata == ImageMetadata("", <<>>)

BaseKeys == {BaseJpg, BasePng}

\* The bucket with the base images only.
BaseOnlyStore == [k \in BaseKeys |-> Blob(SourceBytes(k), "image/jpeg", NoMetadata)]

\* The bucket that also holds the size-3 image of article 123.
PopulatedStore ==
  [k \in BaseKeys \cup {ReplaceJpg(BaseJpg, Str(<<"3">>))} |->
     IF k \in BaseKeys THEN BaseOnlyStore[k]
     ELSE Blob(ProcessImage(SourceBytes(BaseJpg), <<"3">>), "image/jpeg",
               ImageMetadata("123", BaseJpg))]

\* The bucket whose base image of article 123 cannot be decoded.
CorruptStore ==
  [k \in BaseKeys |->
     IF k = BaseJpg THEN Blob(CorruptBytes, "image/jpeg", NoMetadata)
     ELSE BaseOnlyStore[k]]

\* storeImage (lines 36-44): one putObject that creates or overwrites the
\* object under name.
StoreImage(bucket, image, name, metadata) ==
  [k \in DOMAIN bucket \cup {name} |->
     IF k = name THEN Blob(image, "image/jpeg", metadata) ELSE bucket[k]]

\* The events API Gateway hands to the handler: queryStringParameters is
\* null when the URL has no query string, otherwise an object in which
\* size may be missing.
Events ==
  [id : ArticleIds, qsNull : {TRUE}, size : {Undefined}]
    \cup [id : ArticleIds, qsNull : {FALSE},
          size : {Undefined} \cup {Str(sz) : sz \in QuerySizes}]

\* What ddbclient.get(...).promise() can settle as (lines 84-90):
\* DocumentClient resolves with { Item: { image } }, or with {} for an
\* unknown id; the call is rejected when the table is unavailable.
LookupReplies(id) ==
  IF id \in DOMAIN Articles
  THEN {DdbOutput(Articles[id]), PromiseOf("Unavailable", <<>>)}
  ELSE {DdbOutput(<<>>), PromiseOf("Unavailable", <<>>)}

\* How s3client.getObject(...).promise() settles for a key (lines 66-71),
\* given whether S3 is available.
GetImageSettles(bucket, key, avail) ==
  IF ~avail THEN PromiseOf("Unavailable", <<>>)
  ELSE IF key \in DOMAIN bucket THEN PromiseOf("ok", bucket[key].Body)
  ELSE PromiseOf("NoSuchKey", <<>>)

\* What s3client.getObject(...).promise() can settle as (lines 66-71).
GetImage(bucket, key) == {GetImageSettles(bucket, key, avail) : avail \in BOOLEAN}

(***************************************************************************)
(* JavaScript semantics used by the handler.                               *)
(***************************************************************************)
\* value.Body: defined on the output of getObject only; a promise has no
\* property Body.
BodyOf(v) == IF v.t = "s3output" THEN Buf(v.s) ELSE Undefined

\* await v throws when v is a rejected promise.
AwaitRejects(v) == v.t = "promise" /\ v.st \in {"NoSuchKey", "Unavailable"}

\* await v: the value a fulfilled promise holds; any other value itself.
AwaitValue(v) == IF v.t = "promise" THEN S3Output(v.s) ELSE v

\* Whether the identifier NoSuchKeyError of line 115 is declared or
\* imported anywhere in the file (lines 9-17): it is not, so evaluating
\* `e instanceof NoSuchKeyError` throws a ReferenceError.
NoSuchKeyErrorDeclared == FALSE

\* The try/catch of lines 112-126: buffer = await getImage(imageKey).Body.
\* Member access binds tighter than await, so the awaited value is the
\* property Body of the promise that getImage returned.
TryCatch(getPromise) ==
  LET awaited == BodyOf(getPromise) IN
  IF ~AwaitRejects(awaited)
  THEN [path |-> "try", buffer |-> AwaitValue(awaited)]
  ELSE IF ~NoSuchKeyErrorDeclared
  THEN [path |-> "ReferenceError", buffer |-> Undefined]
  ELSE IF awaited.st = "NoSuchKey"
  THEN [path |-> "resize", buffer |-> PromiseOf("pending", <<>>)]
  ELSE [path |-> "notFound", buffer |-> Undefined]

\* buffer.toString('base64') of line 135: a TypeError on undefined, the
\* base64 text of a Buffer, "[object Promise]" of a promise.
ToStringBase64(buffer) ==
  IF buffer.t = "buffer" THEN [threw |-> FALSE, body |-> Base64Of(buffer.s)]
  ELSE IF buffer.t = "undefined" THEN [threw |-> TRUE, body |-> Undefined]
  ELSE [threw |-> FALSE, body |-> ObjectPromiseText]

(***************************************************************************)
(* What a request ends with.                                               *)
(***************************************************************************)
NoResult ==
  [outcome |-> "pending", error |-> "", statusCode |-> 0,
   isBase64Encoded |-> FALSE, headers |-> {}, body |-> Undefined]

\* The handler's promise is rejected with an error named err.
Threw(err) ==
  [outcome |-> "threw", error |-> err, statusCode |-> 0,
   isBase64Encoded |-> FALSE, headers |-> {}, body |-> Undefined]

\* The response of lines 128-136.
OkResponse(body) ==
  [outcome |-> "returned", error |-> "", statusCode |-> 200,
   isBase64Encoded |-> TRUE, headers |-> {"Content-Type", "Cache-Control"},
   body |-> body]

\* The response of lines 120-124.
NotFoundResponse ==
  [outcome |-> "returned", error |-> "", statusCode |-> 404,
   isBase64Encoded |-> FALSE, headers |-> {}, body |-> ErrorBody]

Call(op, key) == [op |-> op, key |-> key]

\* The calls that resizeAndStoreImage (lines 53-60) makes before the
\* handler's response is built: getImage(imageBaseKey), whose property Body
\* is undefined, and processImage(undefined, desiredWidth), which is handed
\* no image bytes and so never yields an image to store.
ResizeCalls(imageBaseKey, size) ==
  <<Call("getImage", imageBaseKey), Call("processImage", DesiredWidth(size))>>

\* A variant of the handler in which the promises are awaited, every
\* failed get of the image key counts as a miss, and the resized image is
\* stored under the image key whatever that key is.
HandlerEffectsCatchAll(rq, bucket) ==
  LET base == rq.imageBaseKey.s
      width == DesiredWidth(rq.size)
  IN
  IF rq.getPromise.st = "ok"
  THEN [calls |-> <<>>, store |-> bucket,
        result |-> OkResponse(Base64Of(rq.getPromise.s))]
  ELSE IF base \notin DOMAIN bucket
  THEN [calls |-> <<Call("getImage", base)>>, store |-> bucket,
        result |-> Threw("NoSuchKey")]
  ELSE IF ProcessImageFails(bucket[base].Body)
  THEN [calls |-> <<Call("getImage", base), Call("processImage", width)>>,
        store |-> bucket, result |-> Threw("GenerationFailed")]
  ELSE LET image == ProcessImage(bucket[base].Body, width) IN
       [calls |-> <<Call("getImage", base), Call("processImage", width),
                    Call("storeImage", rq.imageKey.s)>>,
        store |-> StoreImage(bucket, image, rq.imageKey.s,
                             ImageMetadata(rq.articleId, base)),
        result |-> OkResponse(Base64Of(image))]

\* Lines 111-136 for a request rq that has called getImage(imageKey): the
\* calls made, the bucket afterwards and what the handler ends with.
\* resizeAndStoreImage is not awaited (line 117), and its processImage is
\* handed undefined, so storeImage is never reached and the bucket stays
\* as it is.
HandlerEffects(rq, bucket) ==
  LET tc == TryCatch(rq.getPromise)
      text == ToStringBase64(tc.buffer)
  IN
  [calls |-> IF tc.path = "resize"
             THEN ResizeCalls(rq.imageBaseKey.s, rq.size) ELSE <<>>,
   store |-> bucket,
   result |->
     CASE tc.path = "ReferenceError" -> Threw("ReferenceError")
       [] tc.path = "notFound" -> NotFoundResponse
       [] text.threw -> Threw("TypeError")
       [] OTHER -> OkResponse(text.body)]

\* imageBaseKey.replace of line 106 is a method of strings only: on any
\* other value the property is undefined and calling it throws a
\* TypeError.
HasReplace(v) == v.t = "string"

\* A variant of the handler after the lookup that reads the key out of
\* Item.image, awaits the gets, and takes every failed get for a miss.
LookupEffectsCatchAll(rq, reply, avail, bucket) ==
  IF reply.t = "promise"
  THEN [req |-> [rq EXCEPT !.pc = "done", !.result = Threw("LookupUnavailable")],
        store |-> bucket, s3 |-> FALSE]
  ELSE IF reply.s = <<>>
  THEN [req |-> [rq EXCEPT !.pc = "done", !.imageBaseKey = reply,
                           !.result = Threw("NotFound")],
        store |-> bucket, s3 |-> FALSE]
  ELSE LET imageKey == ReplaceJpg(reply.s, rq.size)
           atGet == [rq EXCEPT !.imageBaseKey = reply,
                               !.imageKey = Str(imageKey),
                               !.getPromise = GetImageSettles(bucket, imageKey, avail),
                               !.calls = Append(@, Call("getImage", imageKey))]
           eff == HandlerEffectsCatchAll(atGet, bucket)
       IN [req |-> [atGet EXCEPT !.pc = "done", !.calls = @ \o eff.calls,
                                 !.result = eff.result],
           store |-> eff.store, s3 |-> TRUE]

\* Lines 105-136 for a request rq suspended at the await of line 105, once
\* the lookup has settled as reply: the request, the bucket and whether the
\* S3 client was created.  A rejected lookup rejects the handler.
\* Otherwise imageBaseKey is the value the lookup resolved with, and line
\* 106 throws a TypeError unless that value is a string.  On a string the
\* image key is derived, the S3 client is created, getImage is called for
\* the image key and the handler goes on to lines 111-136.
LookupEffects(rq, reply, avail, bucket) ==
  IF reply.t = "promise"
  THEN [req |-> [rq EXCEPT !.pc = "done", !.result = Threw("LookupUnavailable")],
        store |-> bucket, s3 |-> FALSE]
  ELSE IF ~HasReplace(reply)
  THEN [req |-> [rq EXCEPT !.pc = "done", !.imageBaseKey = reply,
                           !.result = Threw("TypeError")],
        store |-> bucket, s3 |-> FALSE]
  ELSE LET imageKey == ReplaceJpg(reply.s, rq.size)
           atGet == [rq EXCEPT !.imageBaseKey = reply,
                               !.imageKey = Str(imageKey),
                               !.getPromise = GetImageSettles(bucket, imageKey, avail),
                               !.calls = Append(@, Call("getImage", imageKey))]
           eff == HandlerEffects(atGet, bucket)
       IN [req |-> [atGet EXCEPT !.pc = "done", !.calls = @ \o eff.calls,
                                 !.result = eff.result],
           store |-> eff.store, s3 |-> TRUE]

(***************************************************************************)
(* The listing handler (lines 146-300): text, tokens and Redis ranges.     *)
(***************************************************************************)
\* The control characters, in the order of their codes 0..31.  Tab, line
\* feed, form feed and carriage return are the characters themselves, the
\* others are written by their names.
Controls ==
  << "NUL", "SOH", "STX", "ETX", "EOT", "ENQ", "ACK", "BEL", "BS", "\t",
     "\n", "VT", "\f", "\r", "SO", "SI", "DLE", "DC1", "DC2", "DC3",
     "DC4", "NAK", "SYN", "ETB", "CAN", "EM", "SUB", "ESC", "FS", "GS",
     "RS", "US" >>

\* The printable ASCII characters, in the order of their codes 32..126
\* (the grave accent, code 96, is written "grave").
Printable ==
  << " ", "!", "\"", "#", "$", "%", "&", "'", "(", ")", "*", "+",
     ",", "-", ".", "/", "0", "1", "2", "3", "4", "5", "6", "7",
     "8", "9", ":", ";", "<", "=", ">", "?", "@", "A", "B", "C",
     "D", "E", "F", "G", "H", "I", "J", "K", "L", "M", "N", "O",
     "P", "Q", "R", "S", "T", "U", "V", "W", "X", "Y", "Z", "[",
     "\\", "]", "^", "_", "grave", "a", "b", "c", "d", "e", "f", "g",
     "h", "i", "j", "k", "l", "m", "n", "o", "p", "q", "r", "s",
     "t", "u", "v", "w", "x", "y", "z", "{", "|", "}", "~" >>

\* The ASCII characters, in the order of their codes 0..127.
Ascii == Controls \o Printable \o <<"DEL">>

\* The code of a character of a string (Buffer.from(string), line 244).
CodeOf(c) == (CHOOSE i \in 1..Len(Ascii) : Ascii[i] = c) - 1

\* The character of a byte in toString("ascii") (line 234): the character
\* of its low seven bits.
CharOf(byte) == Ascii[(byte % 128) + 1]

BytesOf(text) == [i \in 1..Len(text) |-> CodeOf(text[i])]

AsciiText(bytes) == [i \in 1..Len(bytes) |-> CharOf(bytes[i])]

\* The base64 alphabet, in the order of the values 0..63.
Base64Alphabet ==
  << "A", "B", "C", "D", "E", "F", "G", "H", "I", "J", "K", "L", "M",
     "N", "O", "P", "Q", "R", "S", "T", "U", "V", "W", "X", "Y", "Z",
     "a", "b", "c", "d", "e", "f", "g", "h", "i", "j", "k", "l", "m",
     "n", "o", "p", "q", "r", "s", "t", "u", "v", "w", "x", "y", "z",
     "0", "1", "2", "3", "4", "5", "6", "7", "8", "9", "+", "/" >>

SextetChar(n) == Base64Alphabet[n + 1]

\* The characters Buffer.from(text, "base64") reads (line 234): those of
\* the alphabet and the two of the URL-safe alphabet, "-" and "_".
IsBase64Char(c) ==
  \/ c \in {"-", "_"}
  \/ \E i \in 1..Len(Base64Alphabet) : Base64Alphabet[i] = c

\* The value of a character: "-" reads as "+" (62), "_" as "/" (63).
SextetOf(c) ==
  IF c = "-" THEN 62
  ELSE IF c = "_" THEN 63
  ELSE (CHOOSE i \in 1..Len(Base64Alphabet) : Base64Alphabet[i] = c) - 1

\* buffer.toString("base64") (line 244): three bytes give four characters,
\* a last group of one or two bytes is padded with "=".
RECURSIVE Base64Encode(_)
Base64Encode(bytes) ==
  IF Len(bytes) = 0 THEN <<>>
  ELSE IF Len(bytes) = 1
  THEN <<SextetChar(bytes[1] \div 4), SextetChar((bytes[1] % 4) * 16), "=", "=">>
  ELSE IF Len(bytes) = 2
  THEN <<SextetChar(bytes[1] \div 4),
         SextetChar((bytes[1] % 4) * 16 + bytes[2] \div 16),
         SextetChar((bytes[2] % 16) * 4), "=">>
  ELSE <<SextetChar(bytes[1] \div 4),
         SextetChar((bytes[1] % 4) * 16 + bytes[2] \div 16),
         SextetChar((bytes[2] % 16) * 4 + bytes[3] \div 64),
         SextetChar(bytes[3] % 64)>>
         \o Base64Encode(SubSeq(bytes, 4, Len(bytes)))

\* The sextets of a base64 text: decoding stops at the first "=" and skips
\* characters outside the alphabet.
RECURSIVE Sextets(_)
Sextets(text) ==
  IF Len(text) = 0 \/ text[1] = "=" THEN <<>>
  ELSE IF IsBase64Char(text[1]) THEN <<SextetOf(text[1])>> \o Sextets(Tail(text))
  ELSE Sextets(Tail(text))

RECURSIVE SextetsToBytes(_)
SextetsToBytes(sx) ==
  IF Len(sx) < 2 THEN <<>>
  ELSE IF Len(sx) = 2 THEN <<sx[1] * 4 + sx[2] \div 16>>
  ELSE IF Len(sx) = 3
  THEN <<sx[1] * 4 + sx[2] \div 16, (sx[2] % 16) * 16 + sx[3] \div 4>>
  ELSE <<sx[1] * 4 + sx[2] \div 16, (sx[2] % 16) * 16 + sx[3] \div 4,
         (sx[3] % 4) * 64 + sx[4]>>
         \o SextetsToBytes(SubSeq(sx, 5, Len(sx)))

\* Buffer.from(text, "base64") (line 234).
Base64Decode(text) == SextetsToBytes(Sextets(text))

Digits == <<"0", "1", "2", "3", "4", "5", "6", "7", "8", "9">>

IsDigit(c) == \E i \in 1..Len(Digits) : Digits[i] = c

DigitValue(c) == (CHOOSE i \in 1..Len(Digits) : Digits[i] = c) - 1

\* The text of an integer in a template literal (line 244).
RECURSIVE ToDecimal(_)
ToDecimal(n) ==
  IF n < 0 THEN <<"-">> \o ToDecimal(0 - n)
  ELSE IF n < 10 THEN <<Digits[n + 1]>>
  ELSE ToDecimal(n \div 10) \o <<Digits[(n % 10) + 1]>>

\* Results of parseInt: a number, or NaN.
Num(n) == [nan |-> FALSE, n |-> n]

NaN == [nan |-> TRUE, n |-> 0]

\* The letters that are digits of radix 16, in the order of their values
\* 10..15.
HexLower == <<"a", "b", "c", "d", "e", "f">>

HexUpper == <<"A", "B", "C", "D", "E", "F">>

\* Whether c is a digit of the radix (10 or 16).
IsRadixDigit(c, radix) ==
  \/ IsDigit(c)
  \/ radix = 16 /\ \E i \in 1..Len(HexLower) : c \in {HexLower[i], HexUpper[i]}

RadixDigitValue(c) ==
  IF IsDigit(c) THEN DigitValue(c)
  ELSE 9 + CHOOSE i \in 1..Len(HexLower) : c \in {HexLower[i], HexUpper[i]}

\* The value of a run of leading digits, given the value read so far.
RECURSIVE DigitsValue(_, _, _)
DigitsValue(text, radix, acc) ==
  IF Len(text) = 0 \/ ~IsRadixDigit(text[1], radix) THEN acc
  ELSE DigitsValue(Tail(text), radix, acc * radix + RadixDigitValue(text[1]))

\* The white space parseInt skips, among the ASCII characters.
WhiteSpace == {" ", "\t", "\n", "VT", "\f", "\r"}

RECURSIVE TrimStart(_)
TrimStart(text) ==
  IF Len(text) > 0 /\ text[1] \in WhiteSpace THEN TrimStart(Tail(text)) ELSE text

\* parseInt(text) (line 235): leading white space is skipped, then come
\* an optional sign, an optional "0x" or "0X" that makes the radix 16, and
\* the leading digits of the radix; NaN when there is no digit.  found is
\* FALSE for parseInt(undefined).
ParseInt(found, text) ==
  LET trimmed == TrimStart(text)
      neg == Len(trimmed) > 0 /\ trimmed[1] = "-"
      unsigned == IF Len(trimmed) > 0 /\ trimmed[1] \in {"-", "+"}
                  THEN Tail(trimmed) ELSE trimmed
      hex == Len(unsigned) >= 2 /\ unsigned[1] = "0" /\ unsigned[2] \in {"x", "X"}
      radix == IF hex THEN 16 ELSE 10
      rest == IF hex THEN SubSeq(unsigned, 3, Len(unsigned)) ELSE unsigned
  IN
  IF ~found \/ Len(rest) = 0 \/ ~IsRadixDigit(rest[1], radix) THEN NaN
  ELSE Num(IF neg THEN 0 - DigitsValue(rest, radix, 0)
           ELSE DigitsValue(rest, radix, 0))

\* The positions of ":" in a text.
Colons(text) == {i \in 1..Len(text) : text[i] = ":"}

Least(S) == CHOOSE x \in S : \A y \in S : x <= y

\* A variant of the token decoding that reads the field before the colon.
DecodeNextTokenFirstField(nextToken) ==
  LET str == AsciiText(Base64Decode(nextToken))
      first == IF Colons(str) = {} THEN str ELSE SubSeq(str, 1, Least(Colons(str)) - 1)
  IN ParseInt(TRUE, first)

\* _decodeNextToken (lines 233-236): str.split(":")[1] is the text between
\* the first colon and the next one (or the end), undefined without colon.
DecodeNextToken(nextToken) ==
  LET str == AsciiText(Base64Decode(nextToken))
      c1 == Least(Colons(str))
      later == {i \in Colons(str) : i > c1}
      c2 == IF later = {} THEN Len(str) + 1 ELSE Least(later)
  IN
  IF Colons(str) = {} THEN ParseInt(FALSE, <<>>)
  ELSE ParseInt(TRUE, SubSeq(str, c1 + 1, c2 - 1))

\* _encodeNextToken (lines 243-245).
EncodeNextToken(type, nextIndex) ==
  Base64Encode(BytesOf(type \o <<":">> \o ToDecimal(nextIndex)))

\* The type every token is encoded with (line 181).
ArticleType == <<"A", "r", "t", "i", "c", "l", "e">>

\* The number of articles the listing is meant to stop at (line 177).
MaxArticles == 50

\* The limit used when args.limit is undefined (line 285).
DefaultLimit == 10

\* Longest Redis list of a behaviour.
MaxListLen == 53

Min(a, b) == IF a < b THEN a ELSE b

Max(a, b) == IF a > b THEN a ELSE b

\* LRANGE key start stop / ZREVRANGE key start stop on len elements
\* (lines 195, 217): the indices returned.  Negative indices count from the
\* end, the range is clipped to the elements there are.
RedisRange(len, start, stop) ==
  LET first == IF start < 0 THEN Max(len + start, 0) ELSE start
      last == IF stop < 0 THEN len + stop ELSE Min(stop, len - 1)
  IN {i \in 0..(len - 1) : first <= i /\ i <= last}

\* A variant of the next index that starts the next page at end.
NextIndexAtEnd(length, end) ==
  IF Min(length, MaxArticles) > end THEN Num(end) ELSE NaN

\* Line 177: Math.min(length, 50) > end ? end + 1 : null.  null is written
\* NaN here: both are falsy at line 181.
NextIndex(length, end) ==
  IF Min(length, MaxArticles) > end THEN Num(end + 1) ELSE NaN

\* Line 181: nextIndex ? _encodeNextToken("Article", nextIndex) : "".
\* null and 0 are falsy.
NextTokenOf(nextIndex) ==
  IF ~nextIndex.nan /\ nextIndex.n # 0
  THEN EncodeNextToken(ArticleType, nextIndex.n) ELSE <<>>

\* The limits a client asks for; args.limit may be missing.
LimitArgs ==
  {[given |-> FALSE, n |-> 0]} \cup {[given |-> TRUE, n |-> k] : k \in {0, 1, 7, 25, 60}}

\* Line 285: limit=10 applies when args.limit is undefined.
LimitOf(arg) == IF arg.given THEN arg.n ELSE DefaultLimit

ListActions == {"latestArticles", "popularArticles", "articleMetrics", "blogMetrics"}

\* args.nextToken: a text, or missing (undefined or null).
TokenArg(text) == [given |-> TRUE, text |-> text]

MissingToken == [given |-> FALSE, text |-> <<>>]

\* The nextToken of a first page.
EmptyToken == TokenArg(<<>>)

\* The nextToken a client sends with its first call: the empty text, none,
\* or a text of its own making: the tokens of "a: 7" and "a:0x1f", and a
\* text in the URL-safe alphabet.
FirstTokens ==
  {EmptyToken, MissingToken,
   TokenArg(Base64Encode(BytesOf(<<"a", ":", " ", "7">>))),
   TokenArg(Base64Encode(BytesOf(<<"a", ":", "0", "x", "1", "f">>))),
   TokenArg(<<"-", "Q", "T", "o", "1">>)}

\* Line 286: start = nextToken !== "" ? _decodeNextToken(nextToken) : 0.
\* A missing nextToken is not "", and Buffer.from (line 234) throws a
\* TypeError on it.
StartOf(token) ==
  IF ~token.given THEN [threw |-> TRUE, start |-> NaN]
  ELSE IF token.text # <<>> THEN [threw |-> FALSE, start |-> DecodeNextToken(token.text)]
  ELSE [threw |-> FALSE, start |-> Num(0)]

\* Lines 194 and 216: end = start + limit - 1.
EndOf(start, limit) == start + limit - 1

\* The times the Redis list grows in a behaviour.
MaxPushes == 1

(***************************************************************************)
(* State.                                                                  *)
(***************************************************************************)
VARIABLES
  store,       \* the content bucket: key -> object
  s3Writable,  \* whether the bucket accepts putObject
  ddbclient,   \* module variable ddbclient (FALSE = null)
  s3client,    \* module variable s3client (FALSE = null)
  req,         \* the requests: position in the handler and its locals
  listLen,     \* number of ids under the Redis key the listing reads
  pushes,      \* the times the list has grown
  cli          \* a client paging through the listing, its call in flight
               \* and its last page

imageVars == <<store, s3Writable, ddbclient, s3client, req>>

listVars == <<listLen, pushes, cli>>

vars == <<store, s3Writable, ddbclient, s3client, req, listLen, pushes, cli>>

\* The client before its first call: the action and limit it will use and
\* the nextToken it starts with.
NewClient(action, limitArg, first) ==
  [action |-> action, limit |-> limitArg, first |-> first,
   nextToken |-> first.text, phase |-> "new", tokenIn |-> <<>>,
   start |-> 0, startNaN |-> FALSE, end |-> 0,
   ids |-> {}, err1 |-> FALSE, length |-> 0, err2 |-> FALSE,
   failed |-> FALSE, thrown |-> "", calls |-> 0]

\* A request before the handler runs.  s3Available is not a local of the
\* handler: it records whether S3 was available while the request ran
\* (lines 105-136), that is, how a getObject of the request would settle.
IdleRequest ==
  [pc |-> "idle", articleId |-> "", size |-> Undefined,
   imageBaseKey |-> Undefined, imageKey |-> Undefined,
   getPromise |-> Undefined, calls |-> <<>>, result |-> NoResult,
   s3Available |-> TRUE]

Init ==
  /\ store \in {BaseOnlyStore, PopulatedStore, CorruptStore}
  /\ s3Writable \in BOOLEAN
  /\ ddbclient = FALSE
  /\ s3client = FALSE
  /\ req = [r \in Requests |-> IdleRequest]
  /\ listLen = 0
  /\ pushes = 0
  /\ cli = NewClient("latestArticles", [given |-> FALSE, n |-> 0], EmptyToken)

\* Lines 98-105: the event is destructured and getArticleMetadata is
\* called; the handler waits for its promise.  Destructuring { size } of a
\* null queryStringParameters throws a TypeError.
HandlerStart(r) ==
  /\ req[r].pc = "idle"
  /\ \A q \in Requests : q < r => req[q].pc # "idle"
  /\ \E ev \in Events :
       IF ev.qsNull
       THEN /\ req' = [req EXCEPT ![r].pc = "done", ![r].articleId = ev.id,
                                  ![r].result = Threw("TypeError")]
            /\ UNCHANGED ddbclient
       ELSE /\ req' = [req EXCEPT ![r].pc = "awaitLookup", ![r].articleId = ev.id,
                                  ![r].size = ev.size,
                                  ![r].calls = <<Call("getArticleMetadata", <<>>)>>]
            /\ ddbclient' = TRUE
  /\ UNCHANGED <<store, s3Writable, s3client, listVars>>

\* Lines 105-136: the lookup settles and the handler runs to its end.  With
\* the replies of the document client every request ends here, at line 105
\* (rejected lookup) or at line 106 (TypeError), so that the bucket is
\* never read or written.
LookupReturns(r) ==
  /\ req[r].pc = "awaitLookup"
  /\ \E reply \in LookupReplies(req[r].articleId), avail \in BOOLEAN :
       LET eff == LookupEffects(req[r], reply, avail, store) IN
       /\ req' = [req EXCEPT ![r] = [eff.req EXCEPT !.s3Available = avail]]
       /\ store' = eff.store
       /\ s3client' = (s3client \/ eff.s3)
  /\ UNCHANGED <<s3Writable, ddbclient, listVars>>

Next ==
  \E r \in Requests : HandlerStart(r) \/ LookupReturns(r)

Spec == Init /\ [][Next]_vars

(***************************************************************************)
(* The listing handler.                                                    *)
(***************************************************************************)
\* _returnArticleList (lines 164-183) on the results of the pipeline: the
\* ids of the range and the length of the list, or an error of either
\* command.
ReturnArticleList(failed, articleIds, length, end) ==
  IF failed
  THEN [error |-> TRUE, ids |-> {}, nextToken |-> <<>>]
  ELSE [error |-> FALSE, ids |-> articleIds,
        nextToken |-> NextTokenOf(NextIndex(length, end))]

\* The nextToken of a call: the one the client starts with, then the one
\* it was returned.
TokenOf(c) == IF c.phase = "new" THEN c.first ELSE TokenArg(c.nextToken)

\* The handler throws err (its promise is rejected).
Thrown(c, err) == [c EXCEPT !.phase = "threw", !.thrown = err, !.calls = c.calls + 1]

\* getLatestArticles up to its await (lines 190-199): the pipeline with
\* LRANGE start end and LLEN is sent, and the call waits for Redis.
GetLatestArticles(c, start, limit) ==
  [c EXCEPT !.phase = "queued", !.calls = c.calls + 1,
            !.tokenIn = TokenOf(c).text,
            !.start = start.n, !.startNaN = start.nan,
            !.end = IF start.nan THEN 0 ELSE EndOf(start.n, limit),
            !.ids = {}, !.err1 = FALSE, !.length = 0, !.err2 = FALSE]

\* getPopularArticles up to its await (lines 212-221): the pipeline with
\* ZREVRANGE start end and ZCOUNT 0 +inf is sent; the scores are counts,
\* so ZCOUNT is the number of members.
GetPopularArticles(c, start, limit) ==
  [c EXCEPT !.phase = "queued", !.calls = c.calls + 1,
            !.tokenIn = TokenOf(c).text,
            !.start = start.n, !.startNaN = start.nan,
            !.end = IF start.nan THEN 0 ELSE EndOf(start.n, limit),
            !.ids = {}, !.err1 = FALSE, !.length = 0, !.err2 = FALSE]

\* The most calls a client makes: one for each start index up to the cap.
MaxCalls == MaxArticles + 1

\* The calls after which a client gives up: a client of limit 0 that starts
\* with a nextToken of its own is returned that nextToken again and again.
CallCap == MaxCalls + 2

\* The client makes its next call.
Calling == cli.phase \in {"new", "paging"} /\ cli.calls < CallCap

\* Lines 283-290 and 190-199: action "latestArticles", up to the await of
\* pipeline.exec().
LatestArticles ==
  /\ Calling
  /\ cli.action = "latestArticles"
  /\ LET st == StartOf(TokenOf(cli)) IN
     cli' = IF st.threw THEN Thrown(cli, "TypeError")
            ELSE GetLatestArticles(cli, st.start, LimitOf(cli.limit))
  /\ UNCHANGED <<listLen, pushes, imageVars>>

\* Lines 283-292 and 212-221: action "popularArticles", up to the await of
\* pipeline.exec().
PopularArticles ==
  /\ Calling
  /\ cli.action = "popularArticles"
  /\ LET st == StartOf(TokenOf(cli)) IN
     cli' = IF st.threw THEN Thrown(cli, "TypeError")
            ELSE GetPopularArticles(cli, st.start, LimitOf(cli.limit))
  /\ UNCHANGED <<listLen, pushes, imageVars>>

\* Redis runs the first command of the pipeline (lines 195, 217) on the
\* list as it is now.  A start that is NaN makes the command fail.
RedisRangeReply ==
  /\ cli.phase = "queued"
  /\ \E ok \in BOOLEAN :
       LET err == ~ok \/ cli.startNaN IN
       cli' = [cli EXCEPT !.phase = "ranged", !.err1 = err,
                          !.ids = IF err THEN {}
                                  ELSE RedisRange(listLen, cli.start, cli.end)]
  /\ UNCHANGED <<listLen, pushes, imageVars>>

\* Redis runs the second command of the pipeline (lines 197, 219) on the
\* list as it is now.
RedisLengthReply ==
  /\ cli.phase = "ranged"
  /\ \E ok \in BOOLEAN :
       cli' = [cli EXCEPT !.phase = "counted", !.err2 = ~ok,
                          !.length = IF ok THEN listLen ELSE 0]
  /\ UNCHANGED <<listLen, pushes, imageVars>>

\* Lines 199-200 and 221-222: the call resumes with the results of the
\* pipeline and builds its answer.
PipelineReturns ==
  /\ cli.phase = "counted"
  /\ LET out == ReturnArticleList(cli.err1 \/ cli.err2, cli.ids, cli.length, cli.end) IN
     cli' = [cli EXCEPT !.phase = "answering", !.failed = out.error,
                        !.ids = out.ids, !.nextToken = out.nextToken]
  /\ UNCHANGED <<listLen, pushes, imageVars>>

\* Lines 290 and 292 (return await): the handler's promise resolves and
\* the client has its page; it will send the nextToken it was returned.
HandlerReturns ==
  /\ cli.phase = "answering"
  /\ cli' = [cli EXCEPT !.phase = IF cli.failed THEN "error"
                                  ELSE IF cli.nextToken = <<>> THEN "ended"
                                  ELSE "paging"]
  /\ UNCHANGED <<listLen, pushes, imageVars>>

\* Lines 283-296: action "articleMetrics" returns null, once line 286 has
\* read the nextToken.
ArticleMetrics ==
  /\ Calling
  /\ cli.action = "articleMetrics"
  /\ cli' = IF StartOf(TokenOf(cli)).threw THEN Thrown(cli, "TypeError")
            ELSE [cli EXCEPT !.phase = "null", !.calls = cli.calls + 1]
  /\ UNCHANGED <<listLen, pushes, imageVars>>

\* Lines 283-298: any other action throws "No such method", once line 286
\* has read the nextToken.
NoSuchMethod ==
  /\ Calling
  /\ cli.action \notin {"latestArticles", "popularArticles", "articleMetrics"}
  /\ cli' = IF StartOf(TokenOf(cli)).threw THEN Thrown(cli, "TypeError")
            ELSE Thrown(cli, "No such method")
  /\ UNCHANGED <<listLen, pushes, imageVars>>

\* Another writer pushes an article id on the list (LATEST_CONTENT_KEY,
\* POPULAR_CONTENT_KEY): the list is not written by these handlers.
ListGrows ==
  /\ listLen < MaxListLen
  /\ pushes < MaxPushes
  /\ listLen' = listLen + 1
  /\ pushes' = pushes + 1
  /\ UNCHANGED <<cli, imageVars>>

ListInit ==
  /\ listLen \in 0..MaxListLen
  /\ pushes = 0
  /\ cli \in {NewClient(a, l, t) : a \in ListActions, l \in LimitArgs, t \in FirstTokens}
  /\ store = BaseOnlyStore
  /\ s3Writable = TRUE
  /\ ddbclient = FALSE
  /\ s3client = FALSE
  /\ req = [r \in Requests |-> IdleRequest]

ListNext ==
  \/ LatestArticles \/ PopularArticles \/ ArticleMetrics \/ NoSuchMethod
  \/ RedisRangeReply \/ RedisLengthReply \/ PipelineReturns \/ HandlerReturns
  \/ ListGrows

ListSpec == ListInit /\ [][ListNext]_vars

(***************************************************************************)
(* Observations on a request.                                              *)
(***************************************************************************)
Done(r) == req[r].pc = "done"

\* The request ended with the success response.
Succeeded(r) == req[r].result.outcome = "returned" /\ req[r].result.statusCode = 200

\* How the get of the derived key settled ("" when no get was made).
GetOutcome(r) == req[r].getPromise.st

CallsOf(r, op) == {i \in DOMAIN req[r].calls : req[r].calls[i].op = op}

\* The request asked for a width and its lookup resolved with the base key
\* of article 123.
ResolvedBaseJpg(r) ==
  /\ req[r].articleId = "123"
  /\ req[r].size.t = "string"
  /\ req[r].size.s \in Sizes
  /\ req[r].imageBaseKey = DdbOutput(BaseJpg)

\* The key of the resized image the request asked for.
DerivedJpg(r) == ReplaceJpg(BaseJpg, req[r].size)

\* The payload the request is to return: the base64 text of the resized
\* base image of article 123.
ExpectedBody(r) == Base64Of(ProcessImage(store[BaseJpg].Body, req[r].size.s))

(***************************************************************************)
(* Claims.                                                                 *)
(***************************************************************************)

\* C1: a finished request for a resized image the bucket holds has made
\* the get of the derived key, which succeeded, and has called neither
\* processImage nor getArticleMetadata.
C1_ReadThroughNoLookup ==
  \A r \in Requests :
    (Done(r) /\ ResolvedBaseJpg(r) /\ DerivedJpg(r) \in DOMAIN store) =>
      /\ GetOutcome(r) = "ok"
      /\ CallsOf(r, "processImage") = {}
      /\ CallsOf(r, "getArticleMetadata") = {}

\* C2: from a bucket that holds the base images only, a finished request
\* for article 123 at a given width returned the resized base image, and
\* the bucket then holds those bytes under the derived key.
C2_MissThenPopulate ==
  \A r \in Requests :
    (store = BaseOnlyStore /\ Done(r) /\ ResolvedBaseJpg(r))
    => /\ Succeeded(r)
       /\ req[r].result.body = ExpectedBody(r)
       /\ DerivedJpg(r) \in DOMAIN store
       /\ store[DerivedJpg(r)].Body
            = ProcessImage(store[BaseJpg].Body, req[r].size.s)

\* C3: when the bucket rejects writes, a finished request for a resized
\* image the bucket does not hold still ended in success with the resized
\* base image.
C3_WriteFailureTolerance ==
  \A r \in Requests :
    (~s3Writable /\ store = BaseOnlyStore /\ Done(r) /\ ResolvedBaseJpg(r))
    => /\ Succeeded(r)
       /\ req[r].result.body = ExpectedBody(r)

\* C4: any two finished requests for the same article and width, made
\* while the bucket did not hold the resized image, both ended in success
\* with equal payloads.
C4_IdempotentConcurrentMiss ==
  \A r1, r2 \in Requests :
    (r1 # r2 /\ Done(r1) /\ Done(r2) /\ store = BaseOnlyStore
       /\ ResolvedBaseJpg(r1) /\ ResolvedBaseJpg(r2)
       /\ req[r1].size = req[r2].size)
    => /\ Succeeded(r1) /\ Succeeded(r2)
       /\ req[r1].result.body = req[r2].result.body

\* C5: a finished request that asked for a width and whose lookup resolved
\* with a base key has derived a key; the keys derived from one base key
\* for two widths are equal only if the widths are equal, and a derived key
\* never equals its base key.
C5_KeyInjectivity ==
  /\ \A r \in Requests :
       (Done(r) /\ req[r].size.t = "string" /\ req[r].size.s \in Sizes
          /\ \E k \in BaseKeys : req[r].imageBaseKey = DdbOutput(k))
       => req[r].imageKey.t = "string"
  /\ \A k \in BaseKeys : \A v1, v2 \in Sizes :
       /\ ReplaceJpg(k, Str(v1)) = ReplaceJpg(k, Str(v2)) <=> v1 = v2
       /\ ReplaceJpg(k, Str(v1)) # k

\* C6: a request whose base key does not end in .jpg makes no get and no
\* processImage call, and ends as Failed(InvalidKeyFormat).
C6_KeyFormatRejection ==
  \A r \in Requests :
    (Done(r) /\ req[r].imageBaseKey = DdbOutput(BasePng))
    => /\ CallsOf(r, "getImage") = {}
       /\ CallsOf(r, "processImage") = {}
       /\ req[r].result.error = "InvalidKeyFormat"

\* C7: a request for an article the table does not hold ends as
\* Failed(NotFound), having made at most the get of the derived key.
C7_UnknownContent ==
  \A r \in Requests :
    (Done(r) /\ req[r].imageBaseKey = DdbOutput(<<>>))
    => /\ \/ req[r].result.error = "NotFound"
          \/ req[r].result.statusCode = 404
       /\ Cardinality(CallsOf(r, "getImage")) <= 1
       /\ CallsOf(r, "processImage") = {}
       /\ CallsOf(r, "storeImage") = {}

C9_FailureKindsDistinct ==
  \A r \in Requests :
    (Done(r) /\ ~Succeeded(r)) =>
      /\ req[r].imageBaseKey = DdbOutput(<<>>) => req[r].result.statusCode = 404
      /\ req[r].result.error = "LookupUnavailable"
           => req[r].result.statusCode \in {502, 503}
      /\ GetOutcome(r) = "Unavailable" => req[r].result.statusCode \in {502, 503}

\* C10: every request that did not end in success returned a response with
\* the structured error body, not base64 encoded and without headers; only
\* success responses carry Cache-Control and Content-Type.
C10_FailuresAreStructured ==
  \A r \in Requests :
    /\ (Done(r) /\ ~Succeeded(r)) =>
         /\ req[r].result.outcome = "returned"
         /\ req[r].result.body = ErrorBody
         /\ ~req[r].result.isBase64Encoded
         /\ req[r].result.headers = {}
    /\ req[r].result.headers # {} => Succeeded(r)

\* C11: a finished request for a resized image the bucket holds ended in
\* success with exactly the stored bytes as payload, and no success
\* response carries a body that is neither the stored image nor the
\* resized base image.
C11_HitReturnsStoredBytes ==
  \A r \in Requests :
    /\ (Done(r) /\ ResolvedBaseJpg(r) /\ DerivedJpg(r) \in DOMAIN store) =>
         /\ Succeeded(r)
         /\ req[r].result.body = Base64Of(store[DerivedJpg(r)].Body)
    /\ Succeeded(r) =>
         \/ /\ req[r].imageKey.s \in DOMAIN store
            /\ req[r].result.body = Base64Of(store[req[r].imageKey.s].Body)
         \/ /\ req[r].imageBaseKey.s \in DOMAIN store
            /\ req[r].result.body
                 = Base64Of(ProcessImage(store[req[r].imageBaseKey.s].Body,
                                         DesiredWidth(req[r].size)))

\* C12: a request without a size reads the image key of the default width
\* and hands the default width to processImage: the key derived for a
\* missing size is the key derived for the default width.
C12_DefaultVariant ==
  /\ \A r \in Requests :
       (Done(r) /\ req[r].size.t = "undefined"
          /\ req[r].imageBaseKey = DdbOutput(BaseJpg))
       => /\ req[r].imageKey = Str(ReplaceJpg(BaseJpg, Str(DefaultImageWidth)))
          /\ \A i \in CallsOf(r, "processImage") :
               req[r].calls[i].key = DefaultImageWidth
  /\ ReplaceJpg(BaseJpg, Undefined) = ReplaceJpg(BaseJpg, Str(DefaultImageWidth))

\* C15: no request calls storeImage with a base key, and every base image
\* in the bucket is the one the ingestion put there.
C15_BaseAssetsReadOnly ==
  /\ \A r \in Requests : \A i \in CallsOf(r, "storeImage") :
       req[r].calls[i].key \notin BaseKeys
  /\ \A k \in BaseKeys :
       /\ k \in DOMAIN store
       /\ store[k] \in {BaseOnlyStore[k], CorruptStore[k]}

\* C15 witness: two finished requests, one whose lookup resolved with a
\* base key that does not end in .jpg (so that the image key would be the
\* base key itself) and one whose lookup resolved with a key that does.
C15_Witness ==
  \E r1, r2 \in Requests :
    /\ Done(r1) /\ req[r1].imageBaseKey = DdbOutput(BasePng)
    /\ Done(r2) /\ req[r2].imageBaseKey = DdbOutput(BaseJpg)

\* C16: every collaborator is called at most once per request, and a
\* finished request for a resized image the bucket does not hold has gone
\* through lookup, get of the derived key, get of the base image,
\* processImage and storeImage, in this order, before it ended in success.
C16_RequestStateMachine ==
  \A r \in Requests :
    /\ Cardinality(CallsOf(r, "getArticleMetadata")) <= 1
    /\ Cardinality(CallsOf(r, "processImage")) <= 1
    /\ Cardinality(CallsOf(r, "storeImage")) <= 1
    /\ Cardinality(CallsOf(r, "getImage")) <= 2
    /\ (Done(r) /\ store = BaseOnlyStore /\ ResolvedBaseJpg(r)
          /\ GetOutcome(r) # "Unavailable")
       => /\ [i \in DOMAIN req[r].calls |-> req[r].calls[i].op]
               = <<"getArticleMetadata", "getImage", "getImage",
                   "processImage", "storeImage">>
          /\ Succeeded(r)

\* C18: a finished request for a resized image the bucket does not hold,
\* whose base image cannot be decoded, made no storeImage call and ended as
\* Failed(GenerationFailed).
C18_GenerationFailure ==
  \A r \in Requests :
    (Done(r) /\ store = CorruptStore /\ ResolvedBaseJpg(r))
    => /\ CallsOf(r, "storeImage") = {}
       /\ \/ req[r].result.error = "GenerationFailed"
          \/ req[r].result.statusCode = 500

(***************************************************************************)
(* Claims on the listing handler.                                          *)
(***************************************************************************)
\* The client holds the page of an answered call.
Answered == cli.phase \in {"paging", "ended"}

\* The client started with the empty nextToken.
FromStart == cli.first = EmptyToken

\* C13: an answered call returns at most 50 ids, whatever its start index
\* and limit, and no call of a client that started with the empty
\* nextToken and follows the nextTokens returns an id at index 50 or
\* higher.
C13_ListingCap ==
  Answered =>
    /\ Cardinality(cli.ids) <= MaxArticles
    /\ FromStart => \A i \in cli.ids : i < MaxArticles

\* The indices whose token does not decode to the index it was encoded
\* from.
RoundTripFailures ==
  {n \in 0..MaxListLen : DecodeNextToken(EncodeNextToken(ArticleType, n)) # Num(n)}

\* C14: a returned nextToken is the base64 text of "Article:" and the next
\* index, and decodes to that index; a call given a returned nextToken
\* reads from exactly the index that token encodes; decoding an encoded
\* index gives the index back for every index from 0.
C14_CursorRoundTrip ==
  /\ (Answered /\ cli.nextToken # <<>>) =>
       /\ AsciiText(Base64Decode(cli.nextToken))
            = ArticleType \o <<":">> \o ToDecimal(cli.end + 1)
       /\ DecodeNextToken(cli.nextToken) = Num(cli.end + 1)
  /\ (cli.calls >= 2 /\ cli.phase = "queued") =>
       /\ ~cli.startNaN
       /\ StartOf(TokenArg(cli.tokenIn)).start = Num(cli.start)
       /\ cli.tokenIn = EncodeNextToken(ArticleType, cli.start)
  /\ RoundTripFailures = {}

\* C14 witness: an answered call that was given a returned nextToken and
\* read from a two-digit index.
C14_Witness ==
  Answered /\ cli.calls >= 2 /\ cli.start >= 10 /\ cli.ids # {}

\* C19: for a client that started with the empty nextToken and follows the
\* nextTokens, the start index strictly increases from one call to the
\* next, a client that holds a nextToken has made at most 51 calls and its
\* next start index is at most 50, and a client whose call was answered
\* stops calling only when it is returned an empty nextToken.
C19_PaginationTerminates ==
  /\ [][(FromStart /\ cli.phase = "paging" /\ cli' # cli)
          => /\ cli'.phase = "queued"
             /\ cli'.start > cli.start
             /\ cli'.calls = cli.calls + 1]_vars
  /\ []((FromStart /\ cli.phase = "paging")
          => /\ cli.nextToken # <<>>
             /\ cli.calls <= cli.start + 1
             /\ cli.start < DecodeNextToken(cli.nextToken).n
             /\ DecodeNextToken(cli.nextToken).n <= MaxArticles)
  /\ [](FromStart => cli.calls <= MaxCalls)
  /\ [](cli.phase = "ended" => cli.nextToken = <<>>)

\* C19 witness: a client that started with the empty nextToken and was
\* returned the empty nextToken after it had followed at least two
\* nextTokens, while the list grew.
C19_Witness ==
  /\ FromStart
  /\ cli.phase = "ended"
  /\ cli.calls >= 3
  /\ cli.start >= 2 * LimitOf(cli.limit)
  /\ LimitOf(cli.limit) >= 1
  /\ pushes > 0

\* C20: for an answered call with a limit of at least 1, the nextToken is
\* non-empty exactly when the list holds an item at index end + 1 below
\* the cap of 50, it then encodes end + 1, and a call given a returned
\* nextToken does not return an empty page.
C20_NextTokenExact ==
  (Answered /\ LimitOf(cli.limit) >= 1) =>
    /\ cli.nextToken # <<>>
         <=> (cli.end + 1 < cli.length /\ cli.end + 1 < MaxArticles)
    /\ cli.nextToken # <<>> => DecodeNextToken(cli.nextToken) = Num(cli.end + 1)
    /\ cli.calls >= 2 => cli.ids # {}

====
